---- MODULE Spec2Model ----
(***************************************************************************)
(* Per-frame character-motion and camera-follow update of the example      *)
(* Controller (src/example/Controller/index.tsx).                          *)
(*                                                                         *)
(* Numbers are fixed point:                                                *)
(*   time      delta is a whole number of ticks of 1/TicksPerSecond s;     *)
(*   velocity  1/VelScale m/s; a speed is a pair [r, s] standing for       *)
(*             (r + s*sqrt(2))/VelScale, so sqrt(2) is kept exact;         *)
(*   angle     1/AngleScale rad, with Math.PI taken as 3 rad, so that      *)
(*             PI/4 is a whole number of units and a turn is TwoPI units;  *)
(*   length    1/PosScale m.                                               *)
(***************************************************************************)
EXTENDS Integers, FiniteSets, Sequences, TLC

VARIABLES
    characterRef,       \* characterRef.current is set (rigid body handle)
    characterModelRef,  \* characterModelRef.current is set (model node handle)
    camTargetPosProp,   \* the camTargetPos prop as passed, or Unset
    modelEulerY,        \* modelEuler.y: the target facing angle
    modelQuaternion,    \* characterModelRef.current.quaternion, as a yaw in 0..TwoPI-1
    pivotPos,           \* pivot.position
    pivotPosition,      \* pivotPosition: the camera target point of the last frame
    impulse,            \* argument of the last frame's setLinvel call, or NoCall
    frame               \* what the last callback read and how it ended

vars == <<characterRef, characterModelRef, camTargetPosProp, modelEulerY,
          modelQuaternion, pivotPos, pivotPosition, impulse, frame>>

---------------------------------------------------------------------------
(* Units and bounds *)

TicksPerSecond == 60
VelScale == 20
AngleScale == 4
PosScale == 20

\* The host supplies delta in 1..MaxDelta ticks.
MaxDelta == 2
Deltas == 1..MaxDelta

PI == 3 * AngleScale
TwoPI == 2 * PI

---------------------------------------------------------------------------
(* Props and their defaults (index.tsx 29-93) *)

capsuleHalfHeightX100 == 35
capsuleRadiusX100 == 30
turnSpeed == 15
sprintMult == 2
jumpVel == 4
sprintJumpMultX10 == 12
speed == 150

Vec(x, y, z) == [x |-> x, y |-> y, z |-> z]

Unset == [set |-> FALSE]
Given(v) == [set |-> TRUE, v |-> v]

\* camTargetPos = { x: 0, y: 0, z: 0 } when the prop is not passed
camTargetPos(prop) == IF prop.set THEN prop.v ELSE Vec(0, 0, 0)

---------------------------------------------------------------------------
(* Keys *)

KeyNames == {"forward", "backward", "leftward", "rightward", "jump", "run"}
AllKeys == [KeyNames -> BOOLEAN]
NoKeys == [k \in KeyNames |-> FALSE]
Pressed(S) == [k \in KeyNames |-> k \in S]

---------------------------------------------------------------------------
(* getMovingDirection *)

Num(n) == [kind |-> "number", val |-> n]
Null == [kind |-> "null"]
Undefined == [kind |-> "undefined"]

\* a slip of sign in the backward & leftward row
getMovingDirection_SignSlip(forward, backward, leftward, rightward, pivotRotY) ==
    IF ~forward /\ ~backward /\ ~leftward /\ ~rightward THEN Null
    ELSE IF forward /\ leftward THEN Num(pivotRotY + PI \div 4)
    ELSE IF forward /\ rightward THEN Num(pivotRotY - PI \div 4)
    ELSE IF backward /\ leftward THEN Num(pivotRotY + PI \div 4 + PI)
    ELSE IF backward /\ rightward THEN Num(pivotRotY + PI \div 4 + PI)
    ELSE IF backward THEN Num(pivotRotY + PI)
    ELSE IF leftward THEN Num(pivotRotY + PI \div 2)
    ELSE IF rightward THEN Num(pivotRotY - PI \div 2)
    ELSE IF forward THEN Num(pivotRotY)
    ELSE Undefined

getMovingDirection(forward, backward, leftward, rightward, pivotRotY) ==
    IF ~forward /\ ~backward /\ ~leftward /\ ~rightward THEN Null
    ELSE IF forward /\ leftward THEN Num(pivotRotY + PI \div 4)
    ELSE IF forward /\ rightward THEN Num(pivotRotY - PI \div 4)
    ELSE IF backward /\ leftward THEN Num(pivotRotY - PI \div 4 + PI)
    ELSE IF backward /\ rightward THEN Num(pivotRotY + PI \div 4 + PI)
    ELSE IF backward THEN Num(pivotRotY + PI)
    ELSE IF leftward THEN Num(pivotRotY + PI \div 2)
    ELSE IF rightward THEN Num(pivotRotY - PI \div 2)
    ELSE IF forward THEN Num(pivotRotY)
    ELSE Undefined

\* the facing reset when no direction is pressed
NextModelEulerY_ResetWhenIdle(movingDirection, old) ==
    IF movingDirection = Null THEN 0
    ELSE IF movingDirection = Undefined THEN Undefined
    ELSE movingDirection.val

\* modelEuler.y = movingDirection === null ? modelEuler.y : movingDirection
NextModelEulerY(movingDirection, old) ==
    IF movingDirection = Null THEN old
    ELSE IF movingDirection = Undefined THEN Undefined
    ELSE movingDirection.val

---------------------------------------------------------------------------
(* Speeds: numbers r + s*sqrt(2), in units of 1/VelScale *)

Q(r, s) == [r |-> r, s |-> s]
QNeg(a) == Q(-a.r, -a.s)
QTimes(n, a) == Q(n * a.r, n * a.s)

\* Object.values(keys).filter((key) => key).length
nbOfKeysPressed(keys) == Cardinality({k \in KeyNames : keys[k]})

\* nbOfKeysPressed == 1 ? speed * delta : Math.sqrt(2) * (speed / 2) * delta
normalizedSpeed(keys, delta) ==
    IF nbOfKeysPressed(keys) = 1
    THEN Q((speed * VelScale * delta) \div TicksPerSecond, 0)
    ELSE Q(0, ((speed \div 2) * VelScale * delta) \div TicksPerSecond)

\* run ? normalizedSpeed * sprintMult : 1
runSpeed(keys, delta) ==
    IF keys["run"] THEN QTimes(sprintMult, normalizedSpeed(keys, delta))
    ELSE Q(1 * VelScale, 0)

\* the fall dropped when jump is not pressed
impulseY_DropsFall(keys, linvelY) ==
    IF keys["jump"]
    THEN (IF keys["run"] THEN (sprintJumpMultX10 * jumpVel * VelScale) \div 10
          ELSE jumpVel * VelScale)
    ELSE 0

\* jump ? (run ? sprintJumpMult * jumpVel : jumpVel) : linvelY
impulseY(keys, linvelY) ==
    IF keys["jump"]
    THEN (IF keys["run"] THEN (sprintJumpMultX10 * jumpVel * VelScale) \div 10
          ELSE jumpVel * VelScale)
    ELSE linvelY

\* const impulse = { x: ..., y: ..., z: ... }
Impulse(keys, delta, linvelY) ==
    [x |-> IF keys["leftward"] THEN QNeg(runSpeed(keys, delta))
           ELSE IF keys["rightward"] THEN runSpeed(keys, delta) ELSE Q(0, 0),
     y |-> impulseY(keys, linvelY),
     z |-> IF keys["forward"] THEN QNeg(runSpeed(keys, delta))
           ELSE IF keys["backward"] THEN runSpeed(keys, delta) ELSE Q(0, 0)]

NoCall == [called |-> FALSE]
Call(v) == [called |-> TRUE, v |-> v]

---------------------------------------------------------------------------
(* Rotation of the model: Quaternion.setFromEuler, angleTo, rotateTowards *)

\* modelQuat.setFromEuler(modelEuler): a yaw, the same for angles a turn apart
setFromEuler(y) == y % TwoPI

\* Quaternion.angleTo: the angle of the shortest arc between two yaws
angleTo(q, target) ==
    LET d == (target - q) % TwoPI
    IN  IF d <= PI THEN d ELSE TwoPI - d

Min(a, b) == IF a <= b THEN a ELSE b

\* a slerp by step / angle without the min(1, ...): it turns past the target
rotateTowards_Unclamped(q, target, step) ==
    LET angle == angleTo(q, target)
        d == (target - q) % TwoPI
    IN  IF angle = 0 THEN {q}
        ELSE {(q + sgn * step) % TwoPI :
                 sgn \in {s \in {1, -1} : (s = 1 /\ d <= PI) \/ (s = -1 /\ d >= PI)}}

\* quaternion.rotateTowards(modelQuat, step): no move at angle 0, else a slerp by
\* t = min(1, step / angle) along the shortest arc; at half a turn either way round
\* is a shortest arc. The set of possible results.
rotateTowards(q, target, step) ==
    LET angle == angleTo(q, target)
        d == (target - q) % TwoPI
        move == Min(step, angle)
    IN  IF angle = 0 THEN {q}
        ELSE {(q + sgn * move) % TwoPI :
                 sgn \in {s \in {1, -1} : (s = 1 /\ d <= PI) \/ (s = -1 /\ d >= PI)}}

\* delta * turnSpeed, in angle units
turnStep(delta) == (delta * turnSpeed * AngleScale) \div TicksPerSecond

---------------------------------------------------------------------------
(* Camera pivot: Vector3.set, Vector3.lerp, Math.exp *)

Abs(n) == IF n < 0 THEN -n ELSE n

RECURSIVE Pow(_, _)
Pow(b, n) == IF n = 0 THEN 1 ELSE b * Pow(b, n - 1)

\* n / d rounded to the nearest whole number, halves away from zero
RoundDiv(n, d) ==
    IF n >= 0 THEN (2 * n + d) \div (2 * d) ELSE -((2 * (-n) + d) \div (2 * d))

\* Math.exp(-camFollowMult * delta) as a fraction: with camFollowMult = 11 (line 63)
\* and a tick of 1/60 s, e^(-11/60) = 0.8325 is taken as ExpTickNum/ExpTickDen per
\* tick, so that exp(-(a + b)) = exp(-a) * exp(-b) holds exactly.
ExpTickNum == 5
ExpTickDen == 6
expNeg(delta) == [num |-> Pow(ExpTickNum, delta), den |-> Pow(ExpTickDen, delta)]

\* the exponent's sign lost: 1 - Math.exp(camFollowMult * delta)
lerpAlpha_PositiveExponent(delta) ==
    LET e == expNeg(delta)
    IN  [num |-> e.num - e.den, den |-> e.num]

\* 1 - Math.exp(-camFollowMult * delta)
lerpAlpha(delta) ==
    LET e == expNeg(delta)
    IN  [num |-> e.den - e.num, den |-> e.den]

\* Vector3.lerp(v, alpha): this.x += (v.x - this.x) * alpha, on each axis
lerp(p, v, alpha) ==
    [x |-> p.x + RoundDiv((v.x - p.x) * alpha.num, alpha.den),
     y |-> p.y + RoundDiv((v.y - p.y) * alpha.num, alpha.den),
     z |-> p.z + RoundDiv((v.z - p.z) * alpha.num, alpha.den)]

\* capsuleHalfHeight + capsuleRadius / 2, in length units
defaultTargetY ==
    ((capsuleHalfHeightX100 + capsuleRadiusX100 \div 2) * PosScale) \div 100

\* camTargetPos.y || (capsuleHalfHeight + capsuleRadius / 2)
targetOffsetY(y) == IF y # 0 THEN y ELSE defaultTargetY

\* pivotPosition.set(currentPos.x + camTargetPos.x, currentPos.y + (...), ...)
targetPoint(currentPos, prop) ==
    Vec(currentPos.x + camTargetPos(prop).x,
        currentPos.y + targetOffsetY(camTargetPos(prop).y),
        currentPos.z + camTargetPos(prop).z)

---------------------------------------------------------------------------
(* What the host supplies to a frame: keys, delta, pivot yaw, the body's       *)
(* vertical velocity and position.                                            *)

Env(K, D, Y, V, P) == [keys : K, delta : D, yaw : Y, linvelY : V, translation : P]

NoFrame ==
    [status |-> "none", keys |-> NoKeys, delta |-> 1, yaw |-> 0, linvelY |-> 0,
     translation |-> Vec(0, 0, 0), movingDirection |-> Null]

Ran(in, status, md) ==
    [status |-> status, keys |-> in.keys, delta |-> in.delta, yaw |-> in.yaw,
     linvelY |-> in.linvelY, translation |-> in.translation, movingDirection |-> md]

---------------------------------------------------------------------------
(* State after construction *)

InitWith(props) ==
    /\ characterRef = FALSE
    /\ characterModelRef = FALSE
    /\ camTargetPosProp \in props
    /\ modelEulerY = 0
    /\ modelQuaternion = 0
    /\ pivotPos = Vec(0, 0, 0)          \* pivot: an Object3D, at the origin
    /\ pivotPosition = Vec(0, 0, 0)     \* new THREE.Vector3()
    /\ impulse = NoCall
    /\ frame = NoFrame

---------------------------------------------------------------------------
(* The refs: set when the nodes mount. Once the controller unmounts the host  *)
(* no longer calls the callback, so no frame follows a cleared ref.          *)

AttachBody ==
    /\ ~characterRef
    /\ characterRef' = TRUE
    /\ UNCHANGED <<characterModelRef, camTargetPosProp, modelEulerY, modelQuaternion,
                   pivotPos, pivotPosition, impulse, frame>>

AttachModel ==
    /\ ~characterModelRef
    /\ characterModelRef' = TRUE
    /\ UNCHANGED <<characterRef, camTargetPosProp, modelEulerY, modelQuaternion,
                   pivotPos, pivotPosition, impulse, frame>>

---------------------------------------------------------------------------
(* The useFrame callback *)

movingDirectionOf(in) ==
    getMovingDirection(in.keys["forward"], in.keys["backward"],
                       in.keys["leftward"], in.keys["rightward"], in.yaw)

\* if (!characterRef.current) return;   (before anything is read)
FrameSkipped(in) ==
    /\ ~characterRef
    /\ impulse' = NoCall
    /\ frame' = [NoFrame EXCEPT !.status = "skipped"]
    /\ UNCHANGED <<characterRef, characterModelRef, camTargetPosProp, modelEulerY,
                   modelQuaternion, pivotPos, pivotPosition>>

\* characterModelRef.current is undefined: reading .quaternion throws a TypeError
\* after modelEuler.y is written and setLinvel is called, before the pivot moves
FrameFaulted(in) ==
    /\ characterRef
    /\ ~characterModelRef
    /\ modelEulerY' = NextModelEulerY(movingDirectionOf(in), modelEulerY)
    /\ impulse' = Call(Impulse(in.keys, in.delta, in.linvelY))
    /\ frame' = Ran(in, "faulted", movingDirectionOf(in))
    /\ UNCHANGED <<characterRef, characterModelRef, camTargetPosProp,
                   modelQuaternion, pivotPos, pivotPosition>>

\* Both handles set: the whole callback. cameraCollisionDetect (line 162) and
\* state.camera.lookAt (line 180) act on the camera only, which is no part of
\* this state.
FrameCompleted(in) ==
    /\ characterRef
    /\ characterModelRef
    /\ modelEulerY' = NextModelEulerY(movingDirectionOf(in), modelEulerY)
    /\ impulse' = Call(Impulse(in.keys, in.delta, in.linvelY))
    /\ modelQuaternion' \in
           rotateTowards(modelQuaternion, setFromEuler(modelEulerY'), turnStep(in.delta))
    /\ pivotPosition' = targetPoint(in.translation, camTargetPosProp)
    /\ pivotPos' = lerp(pivotPos, pivotPosition', lerpAlpha(in.delta))
    /\ frame' = Ran(in, "done", movingDirectionOf(in))
    /\ UNCHANGED <<characterRef, characterModelRef, camTargetPosProp>>

Frame(E) ==
    \E in \in E :
        \/ FrameSkipped(in)
        \/ FrameFaulted(in)
        \/ FrameCompleted(in)

---------------------------------------------------------------------------
(* Specifications: the same callback under bounded hosts *)

Directional == {"forward", "backward", "leftward", "rightward"}
DirectionKeys == {k \in AllKeys : ~k["jump"] /\ ~k["run"]}
CameraKeys == {NoKeys, Pressed({"forward"})}

Yaws == {-2, 0, 1}
LinvelYs == {-30, 0}

\* the body position whose camera target is the pivot's initial position
RestPos == Vec(0, -defaultTargetY, 0)
StandPos == Vec(0, 0, 0)
Positions == {StandPos, Vec(12, 20, -8)}

CamTargetPosProps == {Unset, Given(Vec(0, 0, 0)), Given(Vec(6, 12, 0))}

\* Motion: every key combination, camera at rest.
MotionEnv == Env(AllKeys, Deltas, {0}, LinvelYs, {RestPos})
Init == InitWith({Unset})
Next ==
    \/ AttachBody
    \/ AttachModel
    \/ Frame(MotionEnv)
Spec == Init /\ [][Next]_vars

\* Turning: every directional combination under several camera yaws.
TurnEnv == Env(DirectionKeys, Deltas, Yaws, {0}, {RestPos})
TurnNext ==
    \/ AttachBody
    \/ AttachModel
    \/ Frame(TurnEnv)
TurnSpec == Init /\ [][TurnNext]_vars

\* Camera: a moving character under every camTargetPos prop.
CameraInit == InitWith(CamTargetPosProps)
CameraEnv == Env(CameraKeys, Deltas, {0}, {0}, Positions)
CameraNext ==
    \/ AttachBody
    \/ AttachModel
    \/ Frame(CameraEnv)
CameraSpec == CameraInit /\ [][CameraNext]_vars

\* Stationary: a mounted controller whose character stands still; the nodes mount
\* and the host keeps calling the callback.
StationaryEnv == Env(CameraKeys, Deltas, {0}, {0}, {StandPos})
StationaryFrame == Frame(StationaryEnv)
StationaryNext ==
    \/ AttachBody
    \/ AttachModel
    \/ StationaryFrame
StationarySpec ==
    /\ CameraInit
    /\ [][StationaryNext]_vars
    /\ WF_vars(AttachBody)
    /\ WF_vars(AttachModel)
    /\ WF_vars(StationaryFrame)

---------------------------------------------------------------------------
(* Vocabulary of the claims *)

SetLinvelCalled == impulse.called
DirCount(keys) == Cardinality({k \in Directional : keys[k]})
NoDirection(keys) == DirCount(keys) = 0
TwoOrthogonal(keys) ==
    /\ DirCount(keys) = 2
    /\ keys["forward"] \/ keys["backward"]
    /\ keys["leftward"] \/ keys["rightward"]
QAdd(a, b) == Q(a.r + b.r, a.s + b.s)
\* (r + s*sqrt(2))^2 = r^2 + 2 s^2 + 2 r s sqrt(2)
QSquare(a) == Q(a.r * a.r + 2 * a.s * a.s, 2 * a.r * a.s)
\* x^2 + z^2 of an impulse
PlanarSq(v) == QAdd(QSquare(v.x), QSquare(v.z))
\* (n * baseSpeed * dt)^2
SpeedSq(n, delta) ==
    LET b == (n * speed * VelScale * delta) \div TicksPerSecond
    IN  Q(b * b, 0)

---------------------------------------------------------------------------
(* C1: getMovingDirection against the priority table *)

\* The priority table of the direction selection: the flags a row needs and the
\* offset it adds to the pivot yaw, in priority order.
PriorityTable ==
    << [need |-> {"forward", "leftward"},   offset |-> PI \div 4],
       [need |-> {"forward", "rightward"},  offset |-> -(PI \div 4)],
       [need |-> {"backward", "leftward"},  offset |-> PI - PI \div 4],
       [need |-> {"backward", "rightward"}, offset |-> PI + PI \div 4],
       [need |-> {"backward"},              offset |-> PI],
       [need |-> {"leftward"},              offset |-> PI \div 2],
       [need |-> {"rightward"},             offset |-> -(PI \div 2)],
       [need |-> {"forward"},               offset |-> 0] >>

MatchingRows(keys) ==
    {i \in DOMAIN PriorityTable : \A k \in PriorityTable[i].need : keys[k]}

FirstMatch(keys, yaw) ==
    IF NoDirection(keys) THEN Null
    ELSE IF MatchingRows(keys) = {} THEN Undefined
    ELSE LET i == CHOOSE r \in MatchingRows(keys) : \A o \in MatchingRows(keys) : r <= o
         IN  Num(yaw + PriorityTable[i].offset)

\* C1: in every frame that got past the rigid-body guard, for each of the 16
\* combinations of the four directional flags and each pivot yaw, the direction
\* getMovingDirection returned is the value of the first matching row of the
\* priority table (null when no flag is set), it is never undefined, and a
\* number returned is the new target facing angle.
C1_DirectionMatchesTable ==
    frame.status \in {"done", "faulted"} =>
        /\ frame.movingDirection = FirstMatch(frame.keys, frame.yaw)
        /\ frame.movingDirection # Undefined
        /\ frame.movingDirection # Null => modelEulerY = frame.movingDirection.val

\* all four flags set under a turned camera: the first row (forward & leftward) wins
C1_Witness ==
    /\ frame.status = "done"
    /\ frame.keys = Pressed(Directional)
    /\ frame.yaw = -2
    /\ modelEulerY = -2 + PI \div 4

---------------------------------------------------------------------------
(* C2: planar speed without run and jump *)

\* C2: in a completed frame where run and jump are not pressed and either exactly one
\* directional flag or two orthogonal directional flags are set, the planar
\* magnitude of the impulse written with setLinvel is baseSpeed * dt
\* (stated on the squares: x^2 + z^2 = (baseSpeed * dt)^2); forward alone at
\* dt = 1/60 writes x = 0 and z = -2.5.
C2_PlanarSpeedIsBaseSpeed ==
    /\ ( /\ frame.status = "done"
         /\ ~frame.keys["run"]
         /\ ~frame.keys["jump"]
         /\ DirCount(frame.keys) = 1 \/ TwoOrthogonal(frame.keys) )
       => PlanarSq(impulse.v) = SpeedSq(1, frame.delta)
    /\ (frame.status = "done" /\ frame.keys = Pressed({"forward"}) /\ frame.delta = 1)
       => impulse.v.x = Q(0, 0) /\ impulse.v.z = Q(-((5 * VelScale) \div 2), 0)

---------------------------------------------------------------------------
(* C3: opposite flags *)

\* C3: in every completed frame, if forward and backward are both set the z component of
\* the impulse written is 0, and if leftward and rightward are both set the x
\* component is 0.
C3_OppositeFlagsCancel ==
    frame.status = "done" =>
        /\ frame.keys["forward"] /\ frame.keys["backward"] => impulse.v.z = Q(0, 0)
        /\ frame.keys["leftward"] /\ frame.keys["rightward"] => impulse.v.x = Q(0, 0)

---------------------------------------------------------------------------
(* C4: a missing handle *)

HandleMissing == frame.status \in {"skipped", "faulted"}

\* C4: a frame that ran with the rigid body or the model node missing is a
\* no-op: setLinvel is not called and no fault reaches the host.
C4_MissingHandleIsNoOp ==
    HandleMissing => ~SetLinvelCalled /\ frame.status # "faulted"

---------------------------------------------------------------------------
(* C5: no directional flag *)

\* C5: a frame in which none of forward, backward, leftward, rightward is set,
\* whatever jump and run are and whatever frames came before, leaves the target
\* facing angle as it was and writes an impulse whose x and z are 0.
C5_IdleKeepsFacing ==
    [][ (frame'.status \in {"done", "faulted"} /\ NoDirection(frame'.keys)) =>
            /\ modelEulerY' = modelEulerY
            /\ impulse'.v.x = Q(0, 0)
            /\ impulse'.v.z = Q(0, 0) ]_vars

\* an idle frame with jump and run held, after a frame that turned the target
C5_Witness ==
    /\ frame.status = "done"
    /\ frame.keys = Pressed({"jump", "run"})
    /\ modelEulerY = PI \div 2
    /\ impulse.v.x = Q(0, 0)
    /\ impulse.v.z = Q(0, 0)

---------------------------------------------------------------------------
(* C6: the vertical component *)

\* C6: the y component of the impulse written is jumpVel when jump is set and
\* run is not, sprintJumpMult * jumpVel when both are set, and the body's
\* vertical velocity read in the same frame when jump is not set, whatever the
\* directional flags are.
C6_VerticalImpulse ==
    SetLinvelCalled =>
        /\ (frame.keys["jump"] /\ ~frame.keys["run"]) => impulse.v.y = jumpVel * VelScale
        /\ (frame.keys["jump"] /\ frame.keys["run"]) =>
               10 * impulse.v.y = sprintJumpMultX10 * jumpVel * VelScale
        /\ ~frame.keys["jump"] => impulse.v.y = frame.linvelY

\* a falling body, moving diagonally without jump: the fall is kept
C6_Witness ==
    /\ frame.status = "done"
    /\ frame.keys = Pressed({"forward", "leftward", "run"})
    /\ frame.linvelY = -30
    /\ impulse.v.y = -30

---------------------------------------------------------------------------
(* C7: bounded turning *)

\* C7: in every step the model's orientation moves by at most turnSpeed * dt,
\* along the shortest arc toward the current target facing angle and not past
\* it: the angle moved plus the angle left is the angle there was, so the angle
\* to the target never grows and the model never snaps to a new target.
C7_BoundedTurn ==
    [][ LET target == setFromEuler(modelEulerY')
            moved == angleTo(modelQuaternion, modelQuaternion')
        IN  /\ moved <= turnStep(frame'.delta)
            /\ moved + angleTo(modelQuaternion', target) = angleTo(modelQuaternion, target)
      ]_vars

\* mid-turn: the model has left its initial orientation and is not yet at the target
C7_Witness ==
    /\ frame.status = "done"
    /\ modelQuaternion # 0
    /\ angleTo(modelQuaternion, setFromEuler(modelEulerY)) > turnStep(MaxDelta)

---------------------------------------------------------------------------
(* C8: the pivot follows a stationary character *)

DistSq(p, v) ==
    (v.x - p.x) * (v.x - p.x) + (v.y - p.y) * (v.y - p.y) + (v.z - p.z) * (v.z - p.z)

\* an axis does not pass its target and does not move away from it
NoOvershoot(from, to, target) ==
    /\ (target - to) * (target - from) >= 0
    /\ Abs(target - to) <= Abs(target - from)

\* within the resolution of the fixed point: on each axis less than half a length
\* unit divided by the interpolation factor of the shortest frame
Converged(p, v) ==
    \A d \in {v.x - p.x, v.y - p.y, v.z - p.z} :
        2 * Abs(d) * lerpAlpha(1).num < lerpAlpha(1).den

\* C8: with a stationary character the distance from the pivot to the target
\* point never increases in a step and no axis passes the target, the
\* interpolation factor of every frame is in [0, 1), and the pivot eventually
\* is, and from then on stays, within tolerance of the target point.
C8_PivotConverges ==
    /\ [][ /\ DistSq(pivotPos', pivotPosition') <= DistSq(pivotPos, pivotPosition')
           /\ NoOvershoot(pivotPos.x, pivotPos'.x, pivotPosition'.x)
           /\ NoOvershoot(pivotPos.y, pivotPos'.y, pivotPosition'.y)
           /\ NoOvershoot(pivotPos.z, pivotPos'.z, pivotPosition'.z) ]_vars
    /\ [](frame.status = "done" =>
              /\ 0 <= lerpAlpha(frame.delta).num
              /\ lerpAlpha(frame.delta).num < lerpAlpha(frame.delta).den)
    /\ <>[]( /\ frame.status = "done"
             /\ pivotPosition = targetPoint(StandPos, camTargetPosProp)
             /\ Converged(pivotPos, pivotPosition) )

\* the pivot has left the origin and arrived within tolerance of an offset target
C8_Witness ==
    /\ frame.status = "done"
    /\ camTargetPosProp = Given(Vec(6, 12, 0))
    /\ pivotPos.x > 0
    /\ pivotPos.y > 0
    /\ Converged(pivotPos, pivotPosition)

---------------------------------------------------------------------------
(* C9: sprint *)

\* C9: in a completed frame where run is set with exactly one directional flag and jump is
\* not set, the planar magnitude of the impulse written is
\* baseSpeed * dt * sprintMult (stated on the squares).
C9_SprintScalesSingleDirection ==
    ( /\ frame.status = "done"
      /\ frame.keys["run"]
      /\ ~frame.keys["jump"]
      /\ DirCount(frame.keys) = 1 )
    => PlanarSq(impulse.v) = SpeedSq(sprintMult, frame.delta)

---------------------------------------------------------------------------
(* C10: the camera target point *)

\* C10: with an explicitly configured camTargetPos, whatever its y, 0 included,
\* the target point of a completed frame is the character position plus
\* camTargetPos on all three axes.
C10_ExplicitOffsetIsUsed ==
    (frame.status = "done" /\ camTargetPosProp.set) =>
        /\ pivotPosition.x = frame.translation.x + camTargetPosProp.v.x
        /\ pivotPosition.y = frame.translation.y + camTargetPosProp.v.y
        /\ pivotPosition.z = frame.translation.z + camTargetPosProp.v.z

====
